---- MODULE Spec2Model ----
(***************************************************************************)
(* Model of the fluyt rendering-integration layer.                         *)
(*                                                                         *)
(*   src/src/main.rs             resize synchronisation (wnd_proc,         *)
(*                               gl_fbo_callback, gl_present,              *)
(*                               present_frame) and the platform task pass *)
(*                               of the event loop                         *)
(*   src/flion/src/compositor.rs FlutterCompositor (backing stores and     *)
(*                               present_layers)                           *)
(*                                                                         *)
(*   src/src/main.rs             start-up of main() from the first bind of *)
(*                               the context, and the context callbacks    *)
(*                                                                         *)
(* Platform calls (EGL, Windows.UI.Composition, DwmFlush) are modelled by  *)
(* the bookkeeping they perform and are taken to succeed, except           *)
(* eglMakeCurrent: it fails for a context current on another thread, and   *)
(* in the context callbacks it may fail for any reason. The only process   *)
(* terminations modelled are the panics and assertions written in the      *)
(* source and the abort of a double free.                                  *)
(***************************************************************************)
EXTENDS Integers, Sequences, FiniteSets, TLC

\* ------------------------------------------------------------------ bounds
MaxCoord == 2
MaxResizes == 2

MaxStores == 2
MaxPtrs == 2
MaxVisuals == 2

MaxTasks == 3
MaxTime == 2
MaxDrift == 1
MaxFairTasks == 2

\* Cap on the number of EGL surfaces alive at once (the source has none).
MaxSurfaces == MaxResizes + 2

\* ------------------------------------------------------------- ResizeState
Started(w, h) == [tag |-> "Started", width |-> w, height |-> h]
FrameGenerated == [tag |-> "FrameGenerated", width |-> 0, height |-> 0]
Done == [tag |-> "Done", width |-> 0, height |-> 0]

\* Option<egl::Surface>::None
NoSurface == 0

\* Size of the window, hence of the composition surface, at start-up.
InitialSize == <<1, 1>>

Coords == 0..MaxCoord
Rects == [left : Coords, right : Coords, top : Coords, bottom : Coords]

VARIABLES
    resize_state,   \* Gl::resize_state (the value behind the Mutex)
    surface,        \* Gl::surface: NoSurface or the id of an EGL surface
    openSurfaces,   \* EGL surfaces created and not yet destroyed
    drawing,        \* BeginDraw calls on the composition surface without EndDraw
    surfaceSize,    \* size of Gl::visual and Gl::composition_surface
    ui_pc,          \* position of the UI thread inside wnd_proc
    notified,       \* a notify_all reached the waiting UI thread
    notifications,  \* WM_NCCALCSIZE messages that passed the rectangle test
    releases,       \* returns of wnd_proc from the condition wait
    earlyWakes,     \* wake-ups of the waiter that found the state not Done
    metrics,        \* window-metrics events sent by wnd_proc: how many, and the last
    lastWnd,        \* outcome of the last WM_NCCALCSIZE
    aborted,        \* the process panicked
    lastCall,       \* the last Engine callback into Gl and what it did
    acqSinceNotif,  \* gl_fbo_callback ran since the last notification
    main_pc,        \* position of main() between line 309 and the event loop
    current,        \* per thread, the EGL context current on it
    frameSize,      \* size of the composition surface when Gl::surface was acquired
    committedSize   \* size of the frame of the last Commit

glVars == <<resize_state, surface, openSurfaces, drawing, surfaceSize, ui_pc,
            notified, notifications, releases, earlyWakes, metrics, lastWnd,
            aborted, lastCall, acqSinceNotif, main_pc, current, frameSize,
            committedSize>>

VARIABLES
    compositor_layers,  \* the CompositorFlutterLayer behind each handle
    layers,             \* FlutterCompositor::layers, the stored snapshot
    children,           \* children of root_visual, bottom-most first
    nextVisual,         \* visuals created so far by CreateSpriteVisual
    layerAborted,       \* an assertion of the compositor failed
    lastPresent,        \* the present_layers call, if it was the last call
    freed,              \* handles whose layer was dropped, address not reused
    lastCollect,        \* what collect_backing_store did, if it was the last call
    presentTrace,       \* what present_layers did, if it was the last call
    eglSurfaces         \* EGL surfaces created for layers and not destroyed

layerVars == <<compositor_layers, layers, children, nextVisual, layerAborted,
               lastPresent, freed, lastCollect, presentTrace, eglSurfaces>>

VARIABLES
    tasks,          \* the `tasks` vector of the event loop: (target time, task)
    events,         \* PlatformEvent::PostFlutterTask events not yet delivered
    clock,          \* the time FlutterEngineGetCurrentTime / Instant::now report
    posted,         \* tasks posted so far; the next task is number posted + 1
    ran,            \* FlutterEngineRunTask calls: task, its target, `now` of the pass
    control_flow,   \* what the event loop was last told by set_control_flow
    lastPass        \* `now` and the task vector at the start of the last pass

taskVars == <<tasks, events, clock, posted, ran, control_flow, lastPass>>

vars == <<glVars, layerVars, taskVars>>

NoCall == [name |-> "none", result |-> "none", steps |-> <<>>,
           before |-> "Done", hadSurface |-> FALSE]

\* The UI thread, the Engine's render (raster) thread and its IO thread.
Threads == {"ui", "render", "io"}

NoFrame == <<0, 0>>

\* What main() has built when it reaches line 309.
GlConstructed ==
    /\ resize_state = Done
    /\ surface = NoSurface
    /\ openSurfaces = {}
    /\ drawing = 0
    /\ surfaceSize = InitialSize
    /\ ui_pc = "idle"
    /\ notified = FALSE
    /\ notifications = 0
    /\ releases = 0
    /\ earlyWakes = 0
    /\ metrics = [count |-> 0, last |-> <<0, 0>>]
    /\ lastWnd = "none"
    /\ aborted = FALSE
    /\ lastCall = NoCall
    /\ acqSinceNotif = FALSE
    /\ current = [t \in Threads |-> "none"]
    /\ frameSize = NoFrame
    /\ committedSize = NoFrame

\* The state when the event loop starts.
GlInit == GlConstructed /\ main_pc = "loop"

\* The state before `egl.make_current(display, None, None, Some(context))`.
GlBootInit == GlConstructed /\ main_pc = "start"

\* FlutterEngineRun has returned: the Engine's threads may call back.
EngineStarted == main_pc \in {"running", "metrics_sent", "unbound", "loop"}

\* SetWindowSubclass has installed wnd_proc.
Subclassed == main_pc = "loop"

\* eglMakeCurrent refuses a context that is current on another thread.
CanBind(t, ctx) == \A o \in Threads \ {t} : current[o] # ctx

mainFrame == <<resize_state, surface, openSurfaces, drawing, surfaceSize, ui_pc,
               notified, notifications, releases, earlyWakes, metrics, lastWnd,
               aborted, lastCall, acqSinceNotif, frameSize, committedSize>>

\* main, line 309: the primary context is made current on the UI thread.
MainBind ==
    /\ main_pc = "start"
    /\ main_pc' = "bound"
    /\ current' = [current EXCEPT !["ui"] = "primary"]
    /\ UNCHANGED mainFrame

\* main, line 327: create_engine (FlutterEngineRun, render_thread::start).
MainCreateEngine ==
    /\ main_pc = "bound"
    /\ main_pc' = "running"
    /\ UNCHANGED <<current, mainFrame>>

\* main, lines 329-340: the initial window-metrics event.
MainSendMetrics ==
    /\ ~aborted
    /\ main_pc = "running"
    /\ main_pc' = "metrics_sent"
    /\ UNCHANGED <<current, mainFrame>>

\* main, lines 342-345: the UI thread releases the context.
MainUnbind ==
    /\ ~aborted
    /\ main_pc = "metrics_sent"
    /\ main_pc' = "unbound"
    /\ current' = [current EXCEPT !["ui"] = "none"]
    /\ UNCHANGED mainFrame

\* main, line 353: SetWindowSubclass; the event loop follows.
MainSubclass ==
    /\ ~aborted
    /\ main_pc = "unbound"
    /\ main_pc' = "loop"
    /\ UNCHANGED <<current, mainFrame>>

LockHeldByUi_NoLock == FALSE

LockHeldByUi_WhileWaiting == ui_pc \in {"started", "sent", "waiting"}

\* The UI thread holds the resize_state mutex between lock() and the wait.
LockHeldByUi == ui_pc \in {"started", "sent"}

\* ---------------------------------------------------------------- wnd_proc
RectAccepted_AllowsEmpty(rect) ==
    rect.right >= rect.left /\ rect.bottom >= rect.top

RectAccepted(rect) == rect.right > rect.left /\ rect.bottom > rect.top

\* WM_NCCALCSIZE up to the write of the state (or the whole handler when the
\* rectangle is rejected).
WndProcEnter(rect) ==
    /\ ~aborted
    /\ Subclassed
    /\ ui_pc = "idle"
    /\ IF RectAccepted(rect)
       THEN /\ notifications < MaxResizes
            /\ resize_state' = Started(rect.right - rect.left, rect.bottom - rect.top)
            /\ ui_pc' = "started"
            /\ notifications' = notifications + 1
            /\ lastWnd' = "accepted"
            /\ acqSinceNotif' = FALSE
       ELSE /\ lastWnd' = "ignored"
            /\ UNCHANGED <<resize_state, ui_pc, notifications, acqSinceNotif>>
    /\ UNCHANGED <<surface, openSurfaces, drawing, surfaceSize, notified,
                   releases, earlyWakes, metrics, aborted, lastCall, main_pc,
                   current, frameSize, committedSize>>

\* FlutterEngineSendWindowMetricsEvent, still under the lock.
WndProcSendMetrics ==
    /\ ~aborted
    /\ ui_pc = "started"
    /\ metrics' = [count |-> metrics.count + 1,
                   last |-> <<resize_state.width, resize_state.height>>]
    /\ ui_pc' = "sent"
    /\ UNCHANGED <<resize_state, surface, openSurfaces, drawing, surfaceSize,
                   notified, notifications, releases, earlyWakes, lastWnd,
                   aborted, lastCall, acqSinceNotif, main_pc, current,
                   frameSize, committedSize>>

WaitCondition_OnlyStarted(state) == state.tag = "Started"

\* The condition of wait_while: keep waiting while this holds.
WaitCondition(state) == state.tag # "Done"

\* Condvar::wait_while: test the condition and, if it holds, release the lock
\* and sleep; otherwise return at once.
WndProcWait ==
    /\ ~aborted
    /\ ui_pc = "sent"
    /\ IF WaitCondition(resize_state)
       THEN /\ ui_pc' = "waiting"
            /\ notified' = FALSE
            /\ UNCHANGED releases
       ELSE /\ ui_pc' = "idle"
            /\ releases' = releases + 1
            /\ UNCHANGED notified
    /\ UNCHANGED <<resize_state, surface, openSurfaces, drawing, surfaceSize,
                   notifications, earlyWakes, metrics, lastWnd, aborted,
                   lastCall, acqSinceNotif, main_pc, current, frameSize,
                   committedSize>>

\* The waiter wakes (the mutex is free, render callbacks being atomic here),
\* re-tests the condition and either returns or sleeps again.
WakeUp ==
    /\ IF WaitCondition(resize_state)
       THEN /\ earlyWakes' = 1
            /\ UNCHANGED <<ui_pc, releases>>
       ELSE /\ ui_pc' = "idle"
            /\ releases' = releases + 1
            /\ UNCHANGED earlyWakes
    /\ notified' = FALSE
    /\ UNCHANGED <<resize_state, surface, openSurfaces, drawing, surfaceSize,
                   notifications, metrics, lastWnd, aborted, lastCall,
                   acqSinceNotif, main_pc, current, frameSize, committedSize>>

\* Wake-up caused by notify_all.
WndProcWakeNotified ==
    /\ ~aborted
    /\ ui_pc = "waiting"
    /\ notified
    /\ WakeUp

\* Spurious wake-up, which a condition variable permits at any time.
WndProcWakeSpurious ==
    /\ ~aborted
    /\ ui_pc = "waiting"
    /\ ~notified
    /\ WakeUp

\* ------------------------------------------------------------ present_frame
PresentSteps(sync_dwm) ==
    <<"Flush", "DestroySurface", "MakeCurrent", "EndDraw">>
        \o (IF sync_dwm THEN <<"DwmFlush">> ELSE <<>>)
        \o <<"Commit">>

\* present_frame: panics when no surface is open, otherwise finalises the
\* frame; an Err (the context cannot be rebound) is unwrapped by gl_present.
present_frame(sync_dwm) ==
    IF surface = NoSurface
    THEN /\ aborted' = TRUE
         /\ lastCall' = [name |-> "present", result |-> "abort", steps |-> <<>>,
                         before |-> resize_state.tag, hadSurface |-> FALSE]
         /\ UNCHANGED <<openSurfaces, drawing, current, committedSize>>
    ELSE IF ~CanBind("render", "primary")
    THEN /\ aborted' = TRUE
         /\ openSurfaces' = openSurfaces \ {surface}
         /\ lastCall' = [name |-> "present", result |-> "abort",
                         steps |-> <<"Flush", "DestroySurface">>,
                         before |-> resize_state.tag, hadSurface |-> TRUE]
         /\ UNCHANGED <<drawing, current, committedSize>>
    ELSE /\ openSurfaces' = openSurfaces \ {surface}
         /\ drawing' = drawing - 1
         /\ current' = [current EXCEPT !["render"] = "primary"]
         /\ committedSize' = frameSize
         /\ lastCall' = [name |-> "present", result |-> "true",
                         steps |-> PresentSteps(sync_dwm),
                         before |-> resize_state.tag, hadSurface |-> TRUE]
         /\ UNCHANGED aborted

NotifyAll_Lost == FALSE

\* Condvar::notify_all: wakes the UI thread if it is waiting.
NotifyAll == ui_pc = "waiting"

\* --------------------------------------------------------------- gl_present
PresentRefused_Never(state) == FALSE

\* The arm `ResizeState::Started(_, _) => return false`.
PresentRefused(state) == state.tag = "Started"

gl_present ==
    /\ ~aborted
    /\ EngineStarted
    /\ ~LockHeldByUi
    /\ IF PresentRefused(resize_state)
       THEN /\ lastCall' = [name |-> "present", result |-> "false",
                            steps |-> <<>>, before |-> resize_state.tag,
                            hadSurface |-> surface # NoSurface]
            /\ UNCHANGED <<resize_state, surface, openSurfaces, drawing,
                           notified, aborted, current, frameSize, committedSize>>
       ELSE /\ present_frame(resize_state.tag = "FrameGenerated")
            /\ IF surface = NoSurface \/ ~CanBind("render", "primary")
               THEN UNCHANGED <<resize_state, notified, surface, frameSize>>
               ELSE /\ surface' = NoSurface
                    /\ frameSize' = NoFrame
                    /\ IF resize_state.tag = "FrameGenerated"
                       THEN /\ resize_state' = Done
                            /\ notified' = NotifyAll
                       ELSE UNCHANGED <<resize_state, notified>>
    /\ UNCHANGED <<surfaceSize, ui_pc, notifications, releases, earlyWakes,
                   metrics, lastWnd, acqSinceNotif, main_pc>>

\* ---------------------------------------------------------- gl_fbo_callback
\* Handle returned by create_pbuffer_from_client_buffer: one not in use.
NewSurface == CHOOSE s \in 1..(MaxSurfaces + 1) : s \notin openSurfaces

FboNextState_Unconditional(state) == FrameGenerated

\* The state left by the callback.
FboNextState(state) == IF state.tag = "Started" THEN FrameGenerated ELSE state

FboNextSize_Stale(state, size) == size

FboNextSize_Swapped(state, size) ==
    IF state.tag = "Started" THEN <<state.height, state.width>> ELSE size

\* The size of the visual and the composition surface left by the callback.
FboNextSize(state, size) ==
    IF state.tag = "Started" THEN <<state.width, state.height>> ELSE size

gl_fbo_callback ==
    /\ ~aborted
    /\ EngineStarted
    /\ ~LockHeldByUi
    /\ Cardinality(openSurfaces) < MaxSurfaces
    /\ surfaceSize' = FboNextSize(resize_state, surfaceSize)
    /\ resize_state' = FboNextState(resize_state)
    /\ drawing' = drawing + 1
    /\ openSurfaces' = openSurfaces \cup {NewSurface}
    /\ surface' = NewSurface
    /\ frameSize' = surfaceSize'
    /\ acqSinceNotif' = TRUE
    /\ IF CanBind("render", "primary")
       THEN /\ current' = [current EXCEPT !["render"] = "primary"]
            /\ UNCHANGED aborted
       ELSE /\ aborted' = TRUE
            /\ UNCHANGED current
    /\ lastCall' = [name |-> "fbo",
                    result |-> IF CanBind("render", "primary") THEN "0" ELSE "abort",
                    steps |-> (IF resize_state.tag = "Started"
                               THEN <<"SetSize", "SetOffset", "Resize">>
                               ELSE <<>>) \o <<"BeginDraw", "CreateSurface", "MakeCurrent">>,
                    before |-> resize_state.tag, hadSurface |-> surface # NoSurface]
    /\ UNCHANGED <<ui_pc, notified, notifications, releases, earlyWakes,
                   metrics, lastWnd, main_pc, committedSize>>

\* ------------------------------------------------- make_current callbacks
ReturnValue_AlwaysTrue(ok) == "true"

\* `res.is_ok()`
ReturnValue(ok) == IF ok THEN "true" ELSE "false"

\* egl.make_current(display, None, None, ctx) called on thread t by the
\* callback `name`; platformOk is false when the bind fails in the driver.
\* The callback takes no lock and reads neither the resize state nor
\* Gl::surface.
BindCallback(name, t, ctx, platformOk) ==
    /\ ~aborted
    /\ EngineStarted
    /\ LET ok == platformOk /\ (ctx = "none" \/ CanBind(t, ctx))
       IN  /\ current' = IF ok THEN [current EXCEPT ![t] = ctx] ELSE current
           /\ lastCall' = [name |-> name, result |-> ReturnValue(ok),
                           steps |-> IF ok THEN <<"BindOk">> ELSE <<"BindFailed">>,
                           before |-> "unread", hadSurface |-> FALSE]
    /\ UNCHANGED <<resize_state, surface, openSurfaces, drawing, surfaceSize,
                   ui_pc, notified, notifications, releases, earlyWakes,
                   metrics, lastWnd, aborted, acqSinceNotif, main_pc,
                   frameSize, committedSize>>

\* Called by the Engine on its render thread.
gl_make_current(platformOk) ==
    BindCallback("make_current", "render", "primary", platformOk)

\* Called by the Engine on its IO thread.
gl_make_resource_current(platformOk) ==
    BindCallback("make_resource_current", "io", "resource", platformOk)

\* Called by the Engine on its render thread.
gl_clear_current(platformOk) ==
    BindCallback("clear_current", "render", "none", platformOk)

\* ======================================================== FlutterCompositor
Handles == 1..MaxStores
Ptrs == 1..MaxPtrs

BackingStoreType == "BackingStore"
PlatformViewType == "PlatformView"

\* A freed or never allocated CompositorFlutterLayer.
NoLayer == [alive |-> FALSE, egl_surface |-> FALSE, visual |-> 0]

NoPresent == [args |-> <<>>, status |-> "none", mutations |-> 0]

NoCollect == [stale |-> FALSE, steps |-> <<>>, result |-> "none"]

\* log: the platform calls and the hook call, in order; reads: evaluations of
\* `self.layers[i]`; hook: what the hook returned; returned: what the call
\* returned.
NoTrace == [log |-> <<>>, reads |-> 0, hook |-> "none", returned |-> "none"]

LayerInit ==
    /\ compositor_layers = [h \in Handles |-> NoLayer]
    /\ layers = <<>>
    /\ children = <<>>
    /\ nextVisual = 0
    /\ layerAborted = FALSE
    /\ lastPresent = NoPresent
    /\ freed = {}
    /\ lastCollect = NoCollect
    /\ presentTrace = NoTrace
    /\ eglSurfaces = 0

\* Address returned by Box::leak(Box::new(..)): one not in use.
FreeHandle ==
    IF \A h \in Handles : compositor_layers[h].alive THEN 0
    ELSE CHOOSE h \in Handles :
            /\ ~compositor_layers[h].alive
            /\ \A g \in Handles : ~compositor_layers[g].alive => h <= g

\* create_backing_store: a new layer with its own visual and no open drawable.
create_backing_store(h) ==
    /\ ~layerAborted
    /\ h = FreeHandle
    /\ nextVisual < MaxVisuals
    /\ nextVisual' = nextVisual + 1
    /\ compositor_layers' = [compositor_layers EXCEPT
            ![h] = [alive |-> TRUE, egl_surface |-> FALSE, visual |-> nextVisual + 1]]
    /\ freed' = freed \ {h}
    /\ lastCollect' = NoCollect
    /\ presentTrace' = NoTrace
    /\ lastPresent' = NoPresent
    /\ UNCHANGED <<layers, children, layerAborted, eglSurfaces>>

DrawableAlreadyOpen_Unchecked(layer) == FALSE

\* The negation of `assert!(layer.egl_surface.is_none())`.
DrawableAlreadyOpen(layer) == layer.egl_surface

\* make_surface_current: asserts that no drawable is open, then opens one.
make_surface_current(h) ==
    /\ ~layerAborted
    /\ compositor_layers[h].alive
    /\ presentTrace' = NoTrace
    /\ IF DrawableAlreadyOpen(compositor_layers[h])
       THEN /\ layerAborted' = TRUE
            /\ UNCHANGED <<compositor_layers, eglSurfaces>>
       ELSE /\ compositor_layers' = [compositor_layers EXCEPT ![h].egl_surface = TRUE]
            /\ eglSurfaces' = eglSurfaces + 1
            /\ UNCHANGED layerAborted
    /\ lastCollect' = NoCollect
    /\ lastPresent' = NoPresent
    /\ UNCHANGED <<layers, children, nextVisual, freed>>

CollectSteps_LeakSurface(open) == <<"Drop">>

\* Lines 213-217: `take()` the open drawable and destroy it, then drop the Box.
CollectSteps(open) ==
    (IF open THEN <<"DestroySurface">> ELSE <<>>) \o <<"Drop">>

\* The layer after the given steps have run on it.
AfterCollect(layer, steps) ==
    IF \E i \in 1..Len(steps) : steps[i] = "Drop"
    THEN [alive |-> FALSE,
          egl_surface |-> layer.egl_surface /\ steps[1] # "DestroySurface",
          visual |-> 0]
    ELSE layer

\* collect_backing_store on a live handle: destroy the open drawable, if any,
\* then drop the layer.
collect_backing_store(h) ==
    /\ ~layerAborted
    /\ compositor_layers[h].alive
    /\ LET steps == CollectSteps(compositor_layers[h].egl_surface)
       IN  /\ compositor_layers' = [compositor_layers EXCEPT
                  ![h] = AfterCollect(compositor_layers[h], steps)]
           /\ lastCollect' = [stale |-> FALSE, steps |-> steps, result |-> "ok"]
           /\ eglSurfaces' = IF steps[1] = "DestroySurface"
                             THEN eglSurfaces - 1 ELSE eglSurfaces
    /\ freed' = freed \cup {h}
    /\ presentTrace' = NoTrace
    /\ lastPresent' = NoPresent
    /\ UNCHANGED <<layers, children, nextVisual, layerAborted>>

\* What Box::from_raw and drop do with a pointer that was already freed: the
\* allocator detects the double free and aborts, or the call goes through.
DoubleFreeOutcomes == {"abort", "ok"}

\* collect_backing_store on a handle that was collected before (the Engine
\* breaks the contract): Box::from_raw on freed memory.
collect_backing_store_again(h, outcome) ==
    /\ ~layerAborted
    /\ h \in freed
    /\ layerAborted' = (outcome = "abort")
    /\ lastCollect' = [stale |-> TRUE, steps |-> <<>>, result |-> outcome]
    /\ presentTrace' = NoTrace
    /\ lastPresent' = NoPresent
    /\ UNCHANGED <<compositor_layers, layers, children, nextVisual, freed,
                   eglSurfaces>>

\* The FlutterLayer values the Engine may pass: distinct identities, each
\* backing-store layer referring to its own live CompositorFlutterLayer.
LiveHandles == {h \in Handles : compositor_layers[h].alive}

\* Injective functions from D to S.
Injections(D, S) ==
    {f \in [D -> S] : \A i, j \in D : i # j => f[i] # f[j]}

PtrLists == UNION {Injections(1..n, Ptrs) : n \in 0..MaxPtrs}

\* The FlutterLayer lists the Engine may pass: distinct identities, every
\* backing-store layer referring to its own live CompositorFlutterLayer.
BackingStoreLists ==
    UNION {
        {[i \in 1..Len(ps) |->
            [ptr |-> ps[i], type |-> BackingStoreType, store |-> hs[i]]] :
          hs \in Injections(1..Len(ps), LiveHandles)}
        : ps \in PtrLists}

\* Lists with one layer (at position pv) of another content type, whose
\* backing_store pointer is never read; identities in ascending order.
PlatformViewListsAt(n, pv) ==
    {[i \in 1..n |->
        IF i = pv
        THEN [ptr |-> i, type |-> PlatformViewType, store |-> 0]
        ELSE [ptr |-> i, type |-> BackingStoreType, store |-> hs[i]]] :
      hs \in Injections(1..n \ {pv}, LiveHandles)}

PlatformViewLists ==
    UNION {PlatformViewListsAt(np[1], np[2]) :
             np \in {x \in (1..MaxPtrs) \X (1..MaxPtrs) : x[2] <= x[1]}}

LayerLists == BackingStoreLists \cup PlatformViewLists

PtrsOf(ls) == [i \in 1..Len(ls) |-> ls[i].ptr]

\* `self.layers.len() != layers.len()`
LengthDiffers(snapshot, ls) == Len(snapshot) # Len(ls)

DiffersAt_Membership(snapshot, ls, i) ==
    IF i > Len(snapshot) THEN "oob"
    ELSE IF \A k \in 1..Len(snapshot) : snapshot[k] # ls[i].ptr THEN "yes" ELSE "no"

\* `self.layers[i] != layer`; "oob" when the index is outside the snapshot.
DiffersAt(snapshot, ls, i) ==
    IF i > Len(snapshot) THEN "oob"
    ELSE IF snapshot[i] # ls[i].ptr THEN "yes" ELSE "no"

TypeCheck_ReturnsErr(layer) ==
    IF layer.type = BackingStoreType THEN "ok" ELSE "error"

\* `assert_eq!(layer.type_, ..BackingStore)`: a failed assertion panics.
TypeCheck(layer) ==
    IF layer.type = BackingStoreType THEN "ok" ELSE "assert"


ChangeTest_Eager(update, snapshot, ls, i) == DiffersAt(snapshot, ls, i)

\* `should_update || self.layers[i] != layer`: the right operand is evaluated
\* only when the left one is false.
ChangeTest(update, snapshot, ls, i) ==
    IF update THEN "skipped" ELSE DiffersAt(snapshot, ls, i)

FinaliseDrawable_Leaves(stores, h) == stores

\* `compositor_layer.egl_surface.take()`, EndDraw, destroy_surface.
FinaliseDrawable(stores, h) == [stores EXCEPT ![h].egl_surface = FALSE]

\* The first loop of present_layers from position i on: per layer the change
\* test, the content-type assertion and the finalisation of an open drawable.
RECURSIVE PresentLoop(_, _, _, _)
PresentLoop(snapshot, ls, i, acc) ==
    IF i > Len(ls) THEN acc
    ELSE LET diff == ChangeTest(acc.update, snapshot, ls, i)
             h == ls[i].store
             read == [acc EXCEPT !.reads = IF diff \in {"yes", "no"}
                                           THEN acc.reads + 1 ELSE acc.reads,
                                 !.update = acc.update \/ diff = "yes"]
         IN  IF diff = "oob" THEN [acc EXCEPT !.status = "index"]
             ELSE IF TypeCheck(ls[i]) # "ok"
             THEN [read EXCEPT !.status = TypeCheck(ls[i])]
             ELSE PresentLoop(snapshot, ls, i + 1,
                    IF acc.stores[h].egl_surface
                    THEN [read EXCEPT
                            !.stores = FinaliseDrawable(acc.stores, h),
                            !.log = acc.log \o <<"EndDraw", "DestroySurface">>]
                    ELSE read)

InsertAtTop_Bottom(ch, v) == <<v>> \o ch

\* VisualCollection::InsertAtTop
InsertAtTop(ch, v) == Append(ch, v)

\* The second loop: reinsert every layer's visual and rebuild the snapshot.
RECURSIVE Reinsert(_, _, _, _)
Reinsert(ls, stores, i, acc) ==
    IF i > Len(ls) THEN acc
    ELSE Reinsert(ls, stores, i + 1,
            [children |-> InsertAtTop(acc.children, stores[ls[i].store].visual),
             layers |-> Append(acc.layers, ls[i].ptr)])

\* The destroy_surface calls in a log.
Destroyed(log) ==
    Cardinality({i \in 1..Len(log) : log[i] = "DestroySurface"})

PresentReturn_AlwaysOk(hookResult) == "ok"

\* `self.handler.present()` is the value of the function.
PresentReturn(hookResult) == hookResult

\* What CompositionHandler::present may return.
HookResults == {"ok", "err"}

\* present_layers; a call that gets through its bookkeeping ends by calling
\* CompositionHandler::present and returns its result (status "presented").
\* A panic (status "assert", "index") ends the process; an Err propagated by
\* `?` (status "error") returns before the hook.
present_layers(ls) ==
    /\ ~layerAborted
    /\ \E loop \in {PresentLoop(layers, ls, 1,
                      [status |-> "ok", update |-> LengthDiffers(layers, ls),
                       stores |-> compositor_layers, log |-> <<>>, reads |-> 0])} :
       LET rebuilt == Reinsert(ls, loop.stores, 1, [children |-> <<>>, layers |-> <<>>])
       IN  /\ compositor_layers' = loop.stores
           /\ eglSurfaces' = eglSurfaces - Destroyed(loop.log)
           /\ IF loop.status # "ok"
              THEN /\ layerAborted' = (loop.status \in {"assert", "index"})
                   /\ lastPresent' = [args |-> ls, status |-> loop.status,
                                      mutations |-> 0]
                   /\ presentTrace' = [log |-> loop.log, reads |-> loop.reads,
                                       hook |-> "none", returned |-> "none"]
                   /\ UNCHANGED <<layers, children>>
              ELSE /\ IF loop.update
                      THEN /\ children' = rebuilt.children
                           /\ layers' = rebuilt.layers
                      ELSE UNCHANGED <<layers, children>>
                   /\ lastPresent' = [args |-> ls, status |-> "presented",
                                      mutations |-> IF loop.update
                                                    THEN 1 + Len(ls) ELSE 0]
                   /\ \E hookResult \in HookResults :
                        presentTrace' =
                          [log |-> loop.log
                                   \o (IF loop.update
                                       THEN <<"RemoveAll">>
                                            \o [i \in 1..Len(ls) |-> "InsertAtTop"]
                                       ELSE <<>>)
                                   \o <<"present">>,
                           reads |-> loop.reads,
                           hook |-> hookResult,
                           returned |-> PresentReturn(hookResult)]
                   /\ UNCHANGED layerAborted
    /\ lastCollect' = NoCollect
    /\ UNCHANGED <<nextVisual, freed>>

\* ===================================================== platform task runner
NoWake == [kind |-> "Default", at |-> 0]
WaitUntil(t) == [kind |-> "WaitUntil", at |-> t]

TaskInit ==
    /\ tasks = <<>>
    /\ events = <<>>
    /\ clock = 0
    /\ posted = 0
    /\ ran = <<>>
    /\ control_flow = NoWake
    /\ lastPass = [now |-> 0, pending |-> <<>>]

\* Time passes.
Tick ==
    /\ clock < MaxTime
    /\ clock' = clock + 1
    /\ UNCHANGED <<tasks, events, posted, ran, control_flow, lastPass>>

\* post_task_callback of the platform runner: send_event(PostFlutterTask).
PostFlutterTask(target_time_nanos) ==
    /\ posted < MaxTasks
    /\ posted' = posted + 1
    /\ events' = Append(events, [target |-> target_time_nanos, task |-> posted + 1])
    /\ UNCHANGED <<tasks, clock, ran, control_flow, lastPass>>

Due_Strict(now, target_time_nanos) == now > target_time_nanos

\* `now >= *target_time_nanos`
Due(now, target_time_nanos) == now >= target_time_nanos

\* `std::cmp::min(next, target_time)` over an Option.
MinWake(next, target_time) ==
    IF next.kind = "Default" THEN WaitUntil(target_time)
    ELSE WaitUntil(IF next.at < target_time THEN next.at ELSE target_time)

\* tasks.retain(..) from position i on; instants[i] is what Instant::now()
\* returns when the closure is called for element i.
RECURSIVE Retain(_, _, _, _, _)
Retain(ts, now, instants, i, acc) ==
    IF i > Len(ts) THEN acc
    ELSE IF Due(now, ts[i].target)
         THEN Retain(ts, now, instants, i + 1,
                [acc EXCEPT !.ran = Append(acc.ran, [task |-> ts[i].task,
                                                     target |-> ts[i].target,
                                                     now |-> now])])
         ELSE Retain(ts, now, instants, i + 1,
                [acc EXCEPT
                   !.kept = Append(acc.kept, ts[i]),
                   !.next = MinWake(acc.next, instants[i] + (ts[i].target - now))])

\* Readings of Instant::now() during one pass over n elements: time never
\* runs backwards and at most MaxDrift elapses.
Instants(now, n) ==
    {f \in [1..n -> now..(now + MaxDrift)] :
        \A i, j \in 1..n : i <= j => f[i] <= f[j]}

\* Lines 440-463: the pass run at the end of every event loop iteration.
TaskPass(ts, instants) ==
    LET now == clock
        out == Retain(ts, now, instants, 1, [kept |-> <<>>, ran |-> ran, next |-> NoWake])
    IN  /\ tasks' = out.kept
        /\ ran' = out.ran
        /\ control_flow' = IF out.next.kind = "Default" THEN control_flow ELSE out.next
        /\ clock' = IF Len(ts) = 0 THEN now ELSE instants[Len(ts)]
        /\ lastPass' = [now |-> now, pending |-> ts]

PushTask_Assign(ts, ev) == <<ev>>

\* `tasks.push((t, task))`
PushTask(ts, ev) == Append(ts, ev)

\* An iteration of the event loop delivering Event::UserEvent.
LoopUserEvent ==
    /\ events # <<>>
    /\ events' = Tail(events)
    /\ LET ts == PushTask(tasks, Head(events))
       IN  \E instants \in Instants(clock, Len(ts)) : TaskPass(ts, instants)
    /\ UNCHANGED posted

\* An iteration for any other event (window event, timer expiry, ...).
LoopOtherEvent ==
    /\ \E instants \in Instants(clock, Len(tasks)) : TaskPass(tasks, instants)
    /\ UNCHANGED <<events, posted>>

\* ------------------------------------------------------------ specification
Init == GlInit /\ LayerInit /\ TaskInit

notGl == <<layerVars, taskVars>>
notLayer == <<glVars, taskVars>>
notTask == <<glVars, layerVars>>

\* Any order of render-thread callbacks, any interleaving with the UI thread.
Next ==
    \/ \E rect \in Rects : WndProcEnter(rect) /\ UNCHANGED notGl
    \/ WndProcSendMetrics /\ UNCHANGED notGl
    \/ WndProcWait /\ UNCHANGED notGl
    \/ WndProcWakeNotified /\ UNCHANGED notGl
    \/ WndProcWakeSpurious /\ UNCHANGED notGl
    \/ gl_present /\ UNCHANGED notGl
    \/ gl_fbo_callback /\ UNCHANGED notGl

Spec == Init /\ [][Next]_vars

\* main() from line 309 on, followed by everything Spec allows and by the
\* Engine's context callbacks; the Engine's callbacks become possible as soon
\* as create_engine has run.
BootNext ==
    \/ MainBind /\ UNCHANGED notGl
    \/ MainCreateEngine /\ UNCHANGED notGl
    \/ MainSendMetrics /\ UNCHANGED notGl
    \/ MainUnbind /\ UNCHANGED notGl
    \/ MainSubclass /\ UNCHANGED notGl
    \/ \E ok \in BOOLEAN : gl_make_current(ok) /\ UNCHANGED notGl
    \/ \E ok \in BOOLEAN : gl_make_resource_current(ok) /\ UNCHANGED notGl
    \/ \E ok \in BOOLEAN : gl_clear_current(ok) /\ UNCHANGED notGl
    \/ Next

BootInit == GlBootInit /\ LayerInit /\ TaskInit

BootSpec == BootInit /\ [][BootNext]_vars

\* The Engine's frame cycle: gl_fbo_callback, then gl_present; a refused
\* present is followed by a new cycle.
CycleFbo == lastCall.name # "fbo" /\ gl_fbo_callback /\ UNCHANGED notGl
CyclePresent == lastCall.name = "fbo" /\ gl_present /\ UNCHANGED notGl

CycleNext ==
    \/ \E rect \in Rects : WndProcEnter(rect) /\ UNCHANGED notGl
    \/ WndProcSendMetrics /\ UNCHANGED notGl
    \/ WndProcWait /\ UNCHANGED notGl
    \/ WndProcWakeNotified /\ UNCHANGED notGl
    \/ WndProcWakeSpurious /\ UNCHANGED notGl
    \/ CycleFbo
    \/ CyclePresent

CycleSpec == Init /\ [][CycleNext]_vars

\* The render thread keeps producing frames, the UI thread keeps running and
\* a notified waiter wakes up; a spurious wake-up is never guaranteed.
FairSpec ==
    /\ Init
    /\ [][CycleNext]_vars
    /\ WF_vars(CycleFbo)
    /\ WF_vars(CyclePresent)
    /\ WF_vars(WndProcSendMetrics /\ UNCHANGED notGl)
    /\ WF_vars(WndProcWait /\ UNCHANGED notGl)
    /\ WF_vars(WndProcWakeNotified /\ UNCHANGED notGl)

\* The compositor callbacks, all made on the render thread.
LayerNext ==
    \/ \E h \in Handles : create_backing_store(h) /\ UNCHANGED notLayer
    \/ \E h \in Handles : make_surface_current(h) /\ UNCHANGED notLayer
    \/ \E h \in Handles : collect_backing_store(h) /\ UNCHANGED notLayer
    \/ \E ls \in LayerLists : present_layers(ls) /\ UNCHANGED notLayer
    \/ \E h \in Handles, outcome \in DoubleFreeOutcomes :
          collect_backing_store_again(h, outcome) /\ UNCHANGED notLayer

LayerSpec == Init /\ [][LayerNext]_vars

\* The UI thread's event loop, the Engine posting tasks, and time.
TaskNext ==
    \/ Tick /\ UNCHANGED notTask
    \/ \E t \in 0..MaxTime : PostFlutterTask(t) /\ UNCHANGED notTask
    \/ LoopUserEvent /\ UNCHANGED notTask
    \/ LoopOtherEvent /\ UNCHANGED notTask

TaskSpec == Init /\ [][TaskNext]_vars

\* The event loop keeps iterating and time advances; MaxFairTasks tasks are
\* posted at any moments and with any targets.
TaskFairNext ==
    \/ Tick /\ UNCHANGED notTask
    \/ \E t \in 0..MaxTime :
          posted < MaxFairTasks /\ PostFlutterTask(t) /\ UNCHANGED notTask
    \/ LoopUserEvent /\ UNCHANGED notTask
    \/ LoopOtherEvent /\ UNCHANGED notTask

TaskFairSpec ==
    /\ Init /\ [][TaskFairNext]_vars
    /\ WF_vars(Tick /\ UNCHANGED notTask)
    /\ WF_vars(LoopUserEvent /\ UNCHANGED notTask)
    /\ WF_vars(LoopOtherEvent /\ UNCHANGED notTask)

\* ================================================================== claims

ValidTransition(a, b) ==
    \/ a.tag = "Done" /\ b.tag = "Started"
    \/ a.tag = "Started" /\ b.tag = "FrameGenerated"
    \/ a.tag = "FrameGenerated" /\ b.tag = "Done"

\* C1: whatever the interleaving of resize notifications, gl_fbo_callback and
\* gl_present, every change of the resize state is Done -> Started,
\* Started -> FrameGenerated or FrameGenerated -> Done.
C1_OnlyValidTransitions ==
    [][resize_state' # resize_state => ValidTransition(resize_state, resize_state')]_vars

\* Two complete resize rounds have gone through the three transitions.
C1_Witness == releases = 2 /\ resize_state = Done /\ ui_pc = "idle"

\* C2: every accepted notification is answered by exactly one return from
\* the wait, the return happens only in state Done, and a wake-up that finds
\* Started or FrameGenerated leaves the UI thread waiting.
C2_ReleasedOncePerResizeOnlyWhenDone ==
    /\ [](/\ ui_pc = "idle" => releases = notifications
          /\ ui_pc # "idle" => notifications = releases + 1)
    /\ [][releases' # releases =>
            /\ releases' = releases + 1
            /\ ui_pc # "idle" /\ ui_pc' = "idle"
            /\ resize_state.tag = "Done" /\ resize_state'.tag = "Done"]_vars
    /\ [][(ui_pc # "idle" /\ ui_pc' = "idle") => releases' = releases + 1]_vars

\* The waiter woke early at least once, stayed blocked and was released later.
C2_Witness == releases >= 1 /\ earlyWakes = 1 /\ ui_pc = "idle"

\* C3: at most one drawable is open at any time, and at most one draw on the
\* composition surface is in progress.
C3_AtMostOneDrawableOpen == Cardinality(openSurfaces) <= 1 /\ drawing <= 1

\* C4: under the frame cycle a blocked UI thread is eventually released in
\* state Done; the state leaves Started/FrameGenerated for Done exactly at the
\* first present following a gl_fbo_callback that ran after the notification.
C4_ReleasedAfterOneFrame ==
    /\ (ui_pc = "waiting") ~> (ui_pc = "idle" /\ resize_state.tag = "Done")
    /\ [][(lastCall' # lastCall /\ lastCall'.name = "present"
            /\ ui_pc = "waiting" /\ acqSinceNotif)
           => (resize_state' = Done /\ notified')]_vars
    /\ [][(resize_state # Done /\ resize_state' = Done)
           => (acqSinceNotif /\ lastCall'.name = "present")]_vars

\* A resize round completed by a present made in state FrameGenerated.
C4_Witness ==
    /\ releases >= 1 /\ ui_pc = "idle"
    /\ lastCall.name = "present" /\ lastCall.before = "FrameGenerated"

\* C5: gl_present in state Started returns false and changes nothing else.
C5_RefusedPresentHasNoEffect ==
    [][(lastCall' # lastCall /\ lastCall'.name = "present"
        /\ resize_state.tag = "Started")
       => /\ lastCall'.result = "false"
          /\ lastCall'.steps = <<>>
          /\ resize_state' = resize_state
          /\ UNCHANGED <<surface, openSurfaces, drawing, surfaceSize, notified,
                         ui_pc, releases>>
          /\ ~aborted']_vars

\* A present was refused while a drawable was open.
C5_Witness ==
    /\ lastCall.name = "present" /\ lastCall.result = "false"
    /\ lastCall.hadSurface /\ resize_state.tag = "Started"

\* C6: gl_present called with no drawable open aborts, whatever the state.
C6_PresentWithoutDrawableAborts ==
    (lastCall.name = "present" /\ ~lastCall.hadSurface) => lastCall.result = "abort"

\* The visuals of the layers of a list, in list order.
VisualsOf(ls, stores) == [i \in 1..Len(ls) |-> stores[ls[i].store].visual]

\* C7: a present_layers call that completes rebuilds the visual tree exactly
\* when the identities passed differ from the stored snapshot; otherwise it
\* leaves tree and snapshot alone; afterwards the snapshot is the list passed.
C7_RebuildIffSequenceDiffers ==
    [][(lastPresent' # lastPresent /\ lastPresent'.status = "presented")
       => LET ids == PtrsOf(lastPresent'.args)
          IN  /\ (lastPresent'.mutations > 0) <=> (ids # layers)
              /\ ids = layers => (children' = children /\ layers' = layers)
              /\ layers' = ids]_vars

\* A non-empty list was presented a second time without any tree mutation.
C7_Witness ==
    /\ lastPresent.status = "presented" /\ lastPresent.mutations = 0
    /\ Len(lastPresent.args) = 2 /\ layers = PtrsOf(lastPresent.args)

\* C8: after a rebuild the children of the root visual are the visuals of
\* the layers passed, each once, bottom-most first, and nothing else.
C8_RebuildInsertsInListOrder ==
    [][(lastPresent' # lastPresent /\ lastPresent'.mutations > 0)
       => /\ children' = VisualsOf(lastPresent'.args, compositor_layers)
          /\ \A i, j \in 1..Len(children') : i # j => children'[i] # children'[j]]_vars

\* Two layers presented with the later created one at the bottom.
C8_Witness ==
    /\ lastPresent.mutations > 0 /\ Len(children) = 2
    /\ children[1] > children[2]
    /\ children = VisualsOf(lastPresent.args, compositor_layers)

NotYetDue(now, t) == t.target > now

\* C9: a pass at time now runs exactly the pending tasks with target <= now,
\* each once, removes exactly those, and keeps the others in place; no task
\* runs before its target time.
C9_PassRunsExactlyDueTasks ==
    [][(lastPass' # lastPass \/ ran' # ran \/ tasks' # tasks)
       => LET before == lastPass'.pending
              now == lastPass'.now
              due == {i \in 1..Len(before) : before[i].target <= now}
              new == (Len(ran) + 1)..Len(ran')
          IN  /\ now = clock
              /\ tasks' = SelectSeq(before, LAMBDA t : NotYetDue(now, t))
              /\ Len(ran') = Len(ran) + Cardinality(due)
              /\ SubSeq(ran', 1, Len(ran)) = ran
              /\ \A i \in due : \E k \in new : ran'[k].task = before[i].task
              /\ \A k \in new : ran'[k].now >= ran'[k].target]_vars

\* Three tasks posted out of target order; a pass ran two and kept one.
C9_Witness ==
    /\ Len(lastPass.pending) = 3 /\ Len(tasks) = 1 /\ Len(ran) = 2
    /\ lastPass.pending[1].target > lastPass.pending[2].target
    /\ tasks[1].target > lastPass.now

MinTarget(ts) ==
    CHOOSE m \in {ts[i].target : i \in 1..Len(ts)} :
        \A i \in 1..Len(ts) : m <= ts[i].target

\* C10: whenever a pass leaves tasks pending, the wake-up it arranged is the
\* instant of the smallest pending target time.
C10_WakeAtMinimumTarget ==
    tasks # <<>> => control_flow = WaitUntil(MinTarget(tasks))

\* Where task k is: in flight to the loop, pending, or executed.
Occurrences(seq, k) == Cardinality({i \in 1..Len(seq) : seq[i].task = k})
Executed(k) == Occurrences(ran, k) = 1

C11_ExactlyOnceSafety ==
    \A k \in 1..MaxTasks :
        /\ k <= posted =>
              Occurrences(events, k) + Occurrences(tasks, k) + Occurrences(ran, k) = 1
        /\ k > posted =>
              Occurrences(events, k) + Occurrences(tasks, k) + Occurrences(ran, k) = 0
        /\ \A i \in 1..Len(ran) : ran[i].task = k => ran[i].now >= ran[i].target

\* C11: every task posted to the platform runner is in exactly one place (in
\* flight, pending or executed), is executed at most once and only by a pass
\* whose now has reached its target, stays executed, and, while the loop keeps
\* iterating and time advances, is eventually executed.
C11_EveryTaskExecutedExactlyOnce ==
    /\ []C11_ExactlyOnceSafety
    /\ [][\A k \in 1..MaxTasks : Executed(k) => Executed(k)']_vars
    /\ \A k \in 1..MaxTasks : (posted >= k) ~> Executed(k)

\* A task posted behind a pending one has been executed before it.
C11_Witness ==
    /\ Len(ran) >= 2
    /\ ran[1].task > ran[2].task
    /\ tasks = <<>>
    /\ events = <<>>

\* C12: collect_backing_store on a layer with an open drawable destroys the
\* drawable first and drops the layer second; on a layer with no open drawable
\* it only drops the layer; afterwards the layer does not exist and has no
\* open drawable, and no other layer is touched.
C12_CollectDestroysDrawableThenReleases ==
    [][\A h \in Handles :
          (/\ compositor_layers[h].alive
           /\ compositor_layers'[h] # compositor_layers[h]
           /\ lastCollect'.result = "ok")
          => /\ lastCollect'.steps =
                   IF compositor_layers[h].egl_surface
                   THEN <<"DestroySurface", "Drop">> ELSE <<"Drop">>
             /\ ~compositor_layers'[h].alive
             /\ ~compositor_layers'[h].egl_surface
             /\ \A g \in Handles \ {h} :
                   compositor_layers'[g] = compositor_layers[g]]_vars

\* A layer with an open drawable was collected while another layer keeps its
\* open drawable.
C12_Witness ==
    /\ lastCollect.steps = <<"DestroySurface", "Drop">>
    /\ \E h, g \in Handles :
          /\ h \in freed
          /\ compositor_layers[g].alive
          /\ compositor_layers[g].egl_surface

\* C13: a second collect_backing_store on a handle that was already collected
\* is detected (the call aborts), never accepted.
C13_SecondCollectDetected ==
    lastCollect.stale => lastCollect.result = "abort"

\* C14: present_layers given a list with a layer that is not a backing store
\* aborts on the assertion: the hook is not called, the children of the root
\* visual and the snapshot are not rebuilt.
C14_NonBackingStoreLayerAborts ==
    [][(/\ lastPresent' # lastPresent
        /\ \E i \in 1..Len(lastPresent'.args) :
              lastPresent'.args[i].type # BackingStoreType)
       => /\ layerAborted'
          /\ lastPresent'.status = "assert"
          /\ lastPresent'.mutations = 0
          /\ children' = children
          /\ layers' = layers]_vars

\* The call that aborted had a backing-store layer before the platform view
\* and differed from a non-empty snapshot.
C14_Witness ==
    /\ layerAborted
    /\ lastPresent.status = "assert"
    /\ Len(lastPresent.args) >= 2
    /\ lastPresent.args[1].type = BackingStoreType
    /\ layers # <<>>
    /\ PtrsOf(lastPresent.args) # layers

BindNames == {"make_current", "make_resource_current", "clear_current"}

\* C15: a make_current, make_resource_current or clear_current whose bind
\* fails returns false, does not end the process and changes neither the
\* resize state nor the open drawable nor the context current on any thread;
\* one whose bind succeeds returns true.
C15_FailedBindReturnsFalse ==
    [][(lastCall' # lastCall /\ lastCall'.name \in BindNames)
       => /\ lastCall'.steps \in {<<"BindOk">>, <<"BindFailed">>}
          /\ lastCall'.steps = <<"BindFailed">>
                => lastCall'.result = "false" /\ current' = current
          /\ lastCall'.steps = <<"BindOk">> => lastCall'.result = "true"
          /\ aborted' = aborted
          /\ UNCHANGED <<resize_state, surface, openSurfaces, drawing,
                         surfaceSize, ui_pc, notified>>]_vars

\* make_current failed in the middle of a resize, with a drawable open and the
\* UI thread waiting.
C15_Witness ==
    /\ lastCall.name = "make_current"
    /\ lastCall.result = "false"
    /\ ~aborted
    /\ resize_state.tag = "FrameGenerated"
    /\ surface # NoSurface
    /\ ui_pc = "waiting"

RenderCallbackRan ==
    lastCall' # lastCall /\ lastCall'.name \in {"fbo", "present"}

\* C16: a render-thread callback that observes Started(w, h) runs after the
\* window-metrics event for that notification, carrying (w, h), was sent; no
\* render-thread callback runs between the state write and the moment the UI
\* thread starts waiting.
C16_MetricsSentBeforeStartedObserved ==
    /\ [][(RenderCallbackRan /\ resize_state.tag = "Started")
          => /\ metrics.count = notifications
             /\ metrics.last = <<resize_state.width, resize_state.height>>
             /\ ui_pc = "waiting"]_vars
    /\ [][RenderCallbackRan => ui_pc \notin {"started", "sent"}]_vars

\* The second notification's Started state was observed by a present.
C16_Witness ==
    /\ lastCall.name = "present"
    /\ lastCall.before = "Started"
    /\ metrics.count = 2
    /\ metrics.last # InitialSize

\* C17: once the Engine has been started, the primary context is current on
\* no thread but the render thread.
C17_PrimaryContextOnlyOnRenderThread ==
    EngineStarted => \A t \in Threads \ {"render"} : current[t] # "primary"

\* C18 as claimed: in no state is a render-thread callback unable to proceed
\* until the UI thread acts.
C18_RenderNeverWaitsForUi ==
    ~aborted => ENABLED gl_present

\* C18, amended: a render-thread callback is unable to proceed only while the
\* UI thread is between lock() and the wait, a section the UI thread leaves by
\* its own next step; while the UI thread is idle or blocked waiting for Done
\* the render thread can always proceed, so the two never deadlock.
C18_RenderWaitsOnlyForCriticalSection ==
    ~aborted =>
        /\ ui_pc \in {"idle", "waiting"} => ENABLED gl_present
        /\ ui_pc = "started" => ENABLED WndProcSendMetrics
        /\ ui_pc = "sent" => ENABLED WndProcWait

\* A present ran (and was refused) while the UI thread was blocked waiting.
C18_Witness ==
    /\ ui_pc = "waiting"
    /\ lastCall.name = "present"
    /\ lastCall.result = "false"
    /\ notifications = 2

FboFromStarted ==
    lastCall' # lastCall /\ lastCall'.name = "fbo" /\ resize_state.tag = "Started"

PresentRan ==
    lastCall' # lastCall /\ lastCall'.name = "present"

\* C19 as claimed: gl_fbo_callback in state Started(w, h) resizes the surface
\* and the visual to (w, h) and leaves the state Started; the transition to
\* FrameGenerated is made by the present.
C19_AcquireLeavesStarted ==
    /\ [][FboFromStarted
          => /\ surfaceSize' = <<resize_state.width, resize_state.height>>
             /\ resize_state' = resize_state]_vars
    /\ [][(resize_state.tag = "Started" /\ resize_state'.tag = "FrameGenerated")
          => PresentRan]_vars

\* C19, amended: gl_fbo_callback in state Started(w, h) resizes the surface and
\* the visual to (w, h) and itself sets FrameGenerated; a present never makes
\* that transition, the only one it makes is FrameGenerated -> Done.
C19_AcquireSetsFrameGenerated ==
    /\ [][FboFromStarted
          => /\ surfaceSize' = <<resize_state.width, resize_state.height>>
             /\ resize_state' = FrameGenerated]_vars
    /\ [][(resize_state.tag = "Started" /\ resize_state'.tag = "FrameGenerated")
          => (lastCall' # lastCall /\ lastCall'.name = "fbo")]_vars
    /\ [][(PresentRan /\ resize_state' # resize_state)
          => (resize_state = FrameGenerated /\ resize_state' = Done)]_vars

\* The callback resized to a size other than the initial one and left
\* FrameGenerated.
C19_Witness ==
    /\ lastCall.name = "fbo"
    /\ lastCall.before = "Started"
    /\ resize_state = FrameGenerated
    /\ surfaceSize # InitialSize
    /\ frameSize = surfaceSize

\* C20: when the UI thread is released from the notification for (w, h), the
\* surface and the visual have size (w, h) and a frame of that size has been
\* committed; the present that sets Done commits the most recently acquired
\* frame, which was acquired after the notification and at size (w, h).
C20_ReleasedAfterFrameOfNewSize ==
    /\ [][releases' = releases + 1
          => /\ surfaceSize = metrics.last
             /\ committedSize = metrics.last]_vars
    /\ [][(resize_state = FrameGenerated /\ resize_state' = Done)
          => /\ acqSinceNotif
             /\ frameSize = metrics.last
             /\ surfaceSize = metrics.last
             /\ committedSize' = frameSize]_vars

\* The UI thread was released although a frame acquired before the
\* notification was left behind by a refused present.
C20_Witness ==
    /\ releases >= 1
    /\ ui_pc = "idle"
    /\ lastWnd = "accepted"
    /\ committedSize = surfaceSize
    /\ surfaceSize[1] # surfaceSize[2]
    /\ surface = NoSurface
    /\ openSurfaces # {}

\* The steps the claim orders; the rebind of the context is not among them.
OrderedSteps(steps) == SelectSeq(steps, LAMBDA x : x # "MakeCurrent")

\* C21: a present that returns true has flushed, destroyed the drawable, ended
\* the draw, flushed in step with the display exactly when it was made in
\* state FrameGenerated, and committed once, in that order, and it leaves no
\* drawable open and no draw begun.
C21_PresentStepsInOrder ==
    [][(PresentRan /\ lastCall'.result = "true")
       => /\ OrderedSteps(lastCall'.steps) =
                <<"Flush", "DestroySurface", "EndDraw">>
                \o (IF resize_state = FrameGenerated THEN <<"DwmFlush">> ELSE <<>>)
                \o <<"Commit">>
          /\ resize_state \in {FrameGenerated, Done}
          /\ resize_state' = Done
          /\ surface' = NoSurface
          /\ openSurfaces' = {}
          /\ drawing' = 0]_vars

\* A step of present_layers.
PresentCalled == lastPresent' # NoPresent

ListedStores(ls) ==
    {ls[i].store : i \in {k \in 1..Len(ls) : ls[k].type = BackingStoreType}}

Count(log, step) == Cardinality({i \in 1..Len(log) : log[i] = step})

\* C22: after a present_layers that got through its bookkeeping no listed
\* layer has an open drawable; each listed layer that had one had its draw
\* ended and its drawable destroyed once, no EndDraw is issued for the
\* others, and layers that are not listed are unchanged.
C22_ListedDrawablesFinalised ==
    [][(PresentCalled /\ lastPresent'.status = "presented")
       => \A listed \in {ListedStores(lastPresent'.args)} :
          \A hadOpen \in {Cardinality({h \in listed : compositor_layers[h].egl_surface})} :
              /\ \A h \in listed :
                    /\ ~compositor_layers'[h].egl_surface
                    /\ compositor_layers'[h].alive
                    /\ compositor_layers'[h].visual = compositor_layers[h].visual
              /\ \A h \in Handles \ listed :
                    compositor_layers'[h] = compositor_layers[h]
              /\ Count(presentTrace'.log, "EndDraw") = hadOpen
              /\ Count(presentTrace'.log, "DestroySurface") = hadOpen
              /\ eglSurfaces' = eglSurfaces - hadOpen]_vars

\* One listed layer had its drawable finalised while a layer that was not
\* listed keeps its open drawable.
C22_Witness ==
    /\ lastPresent.status = "presented"
    /\ Len(lastPresent.args) = 1
    /\ Count(presentTrace.log, "EndDraw") = 1
    /\ \E g \in Handles \ ListedStores(lastPresent.args) :
          compositor_layers[g].alive /\ compositor_layers[g].egl_surface

\* C23: a present_layers that gets through its bookkeeping calls the hook
\* once, as its last step, when every listed drawable is finalised and the
\* snapshot is the list passed, and returns what the hook returned; a call
\* that does not get through never calls the hook.
C23_HookCalledOnceAfterBookkeeping ==
    /\ [][(PresentCalled /\ lastPresent'.status = "presented")
          => LET log == presentTrace'.log
             IN  /\ Count(log, "present") = 1
                 /\ log[Len(log)] = "present"
                 /\ presentTrace'.hook \in HookResults
                 /\ presentTrace'.returned = presentTrace'.hook
                 /\ layers' = PtrsOf(lastPresent'.args)
                 /\ \A h \in ListedStores(lastPresent'.args) :
                       ~compositor_layers'[h].egl_surface]_vars
    /\ [][(PresentCalled /\ lastPresent'.status # "presented")
          => /\ Count(presentTrace'.log, "present") = 0
             /\ presentTrace'.hook = "none"]_vars

\* The hook failed after a drawable was finalised and the tree rebuilt, and
\* the call returned the failure.
C23_Witness ==
    /\ presentTrace.hook = "err"
    /\ presentTrace.returned = "err"
    /\ Count(presentTrace.log, "EndDraw") = 1
    /\ Count(presentTrace.log, "InsertAtTop") = 2

OpenLayers == {h \in Handles : compositor_layers[h].egl_surface}

\* C24: every layer has at most one drawable open (the EGL surfaces alive are
\* one per layer with an open drawable); make_surface_current on a layer with
\* an open drawable aborts and opens nothing; an open drawable is closed only
\* by a present_layers that lists the layer or by the layer's collection.
C24_OneDrawablePerLayer ==
    /\ [](eglSurfaces = Cardinality(OpenLayers))
    /\ [][\A h \in Handles :
            (compositor_layers[h].egl_surface /\ ~compositor_layers'[h].egl_surface)
            => \/ ~compositor_layers'[h].alive /\ lastCollect'.result = "ok"
               \/ PresentCalled /\ h \in ListedStores(lastPresent'.args)]_vars
    /\ [][\A h \in Handles :
            \/ ~compositor_layers'[h].alive
            \/ (PresentCalled /\ lastPresent'.status = "presented"
                /\ h \in ListedStores(lastPresent'.args))
            => ~compositor_layers'[h].egl_surface]_vars
    /\ [][(layerAborted' /\ ~layerAborted
            /\ lastPresent' = NoPresent /\ lastCollect' = NoCollect)
          => /\ OpenLayers # {}
             /\ compositor_layers' = compositor_layers
             /\ eglSurfaces' = eglSurfaces]_vars

\* make_surface_current was called on a layer whose drawable was open, and
\* the process aborted with one drawable open.
C24_Witness ==
    /\ layerAborted
    /\ lastPresent = NoPresent
    /\ lastCollect = NoCollect
    /\ Cardinality(OpenLayers) = 1
    /\ eglSurfaces = 1

\* C25: after a present_layers that got through, the children of the root
\* visual are the visuals of the layers the list refers to, in list order.
C25_ChildrenAreListedVisuals ==
    [][(PresentCalled /\ lastPresent'.status = "presented")
       => children' = VisualsOf(lastPresent'.args, compositor_layers')]_vars

\* C26: a notification with an empty or inverted rectangle changes nothing
\* (no Started, no metrics event, no wait); a notification is accepted only
\* with positive width and height, and then sets Started and goes on to wait.
C26_EmptyRectIgnored ==
    /\ [][(lastWnd' = "ignored" /\ lastWnd # "ignored")
          => /\ UNCHANGED <<resize_state, metrics, ui_pc, notifications,
                            releases, notified, acqSinceNotif>>
             /\ ui_pc' = "idle"]_vars
    /\ [][notifications' # notifications
          => /\ resize_state'.tag = "Started"
             /\ resize_state'.width > 0
             /\ resize_state'.height > 0
             /\ ui_pc' = "started"
             /\ lastWnd' = "accepted"]_vars

\* A notification was ignored after an accepted one had been served, with
\* the state left Done and one metrics event sent in all.
C26_Witness ==
    /\ lastWnd = "ignored"
    /\ ui_pc = "idle"
    /\ resize_state = Done
    /\ notifications = 1
    /\ metrics.count = 1

\* C27: the change test reads self.layers[i] only when the two lengths are
\* equal and no earlier position differed, so present_layers never fails
\* with an index out of bounds.
C27_SnapshotReadInBounds ==
    [][PresentCalled
       => /\ lastPresent'.status # "index"
          /\ presentTrace'.reads <= Len(layers)
          /\ Len(layers) # Len(lastPresent'.args) => presentTrace'.reads = 0
          /\ \A k \in 1..(presentTrace'.reads - 1) :
                layers[k] = lastPresent'.args[k].ptr]_vars

\* A list of two layers was presented against a shorter snapshot without a
\* single read of the snapshot.
C27_Witness ==
    /\ lastPresent.status = "presented"
    /\ Len(lastPresent.args) = MaxPtrs
    /\ presentTrace.reads = 0
    /\ lastPresent.mutations = 1 + MaxPtrs

====
